---- MODULE Spec2Model ----
(***************************************************************************)
(* Model of src/dynamic_string.rs (DynamicString::new).                    *)
(*                                                                         *)
(* A string is a sequence of characters; a character is a one-letter TLA+  *)
(* string.  The letter "E" stands for a character whose UTF-8 encoding is   *)
(* two bytes long (such as U+00E9); every other letter is one byte long.   *)
(* Sequences are indexed from 1, Rust vectors from 0: the Rust index i is  *)
(* the index i + 1 here.                                                   *)
(***************************************************************************)
EXTENDS Integers, Sequences, FiniteSets, TLC

\* ------------------------------------------------------------ bounds ----
MaxLen == 6        \* longest enumerated template, tokenizer alone
MaxTemplate == 4   \* longest enumerated template, whole construction
MaxEvents == 3     \* output events emitted by all scripts together
MaxFineEvents == 2 \* the same, where callbacks and sink calls take steps

\* --------------------------------------------------------- constants ----
SKIP_BRACKETS == 4

\* ------------------------------------------------------------ inputs ----
Alphabet == {"{", "}", "a", "E"}

Values == {<<"1">>, <<"2">>, <<"3">>}

\* the output events a script can hand to its callback
OutputStreams ==
    {[kind |-> "Stdout", out |-> v] : v \in Values}
        \cup {[kind |-> "Stderr", out |-> <<"1">>]}

TemplateXY == <<"{", "{", "x", "}", "}", "-", "{", "{", "y", "}", "}">>

TemplateUnterminated ==
    <<"{", "{", "u", "n", "t", "e", "r", "m", "i", "n", "a", "t", "e", "d">>

TemplateSingleClose == <<"{", "{", "a", "}", "b", "}", "}">>

TemplateAdjacent == <<"{", "{", "a", "}", "}", "{", "{", "b", "}", "}">>

TemplateMiddle == <<"a", "b", "{", "{", "x", "}", "}", "c", "d">>

Scenarios ==
    {TemplateXY, TemplateUnterminated, TemplateSingleClose, TemplateMiddle}

\* every string over Alphabet of at most n characters
StringsUpTo(n) == UNION {[1..m -> Alphabet] : m \in 0..n}

Templates == StringsUpTo(MaxTemplate) \cup Scenarios

CompileTemplates == StringsUpTo(MaxLen) \cup Scenarios \cup {TemplateAdjacent}

\* ----------------------------------------------------------- strings ----
\* number of bytes of the UTF-8 encoding of one character
Utf8Len(c) == IF c = "E" THEN 2 ELSE 1

RECURSIVE StrLen(_)
\* String::len: the length of a string in bytes
StrLen(s) == IF s = <<>> THEN 0 ELSE Utf8Len(Head(s)) + StrLen(Tail(s))

RECURSIVE Join(_)
\* [String]::join(""): the concatenation of the parts in index order
Join(parts) == IF parts = <<>> THEN <<>> ELSE Head(parts) \o Join(Tail(parts))

\* ---------------------------------------------------------- segments ----
Static(str) == [kind |-> "Static", text |-> str]

Dynamic(str) == [kind |-> "Dynamic", text |-> str]

NoToken == [kind |-> "None", text |-> <<>>]

\* --------------------------------------------------------- tokenizer ----
RECURSIVE DynamicTake(_, _)
\* How many characters the take_while of the dynamic branch accepts from
\* position j on.  The element at position j is element i = j - 3 of the
\* enumeration after skip(2), and chars[i + 1] is the position j - 1.
DynamicTake(cs, j) ==
    IF j > Len(cs) THEN 0
    ELSE IF cs[j] # "}" /\ cs[j - 1] # "}" THEN 1 + DynamicTake(cs, j + 1)
    ELSE 0

RECURSIVE StaticTakeToBrace(_, _)
\* A static take_while that stops at any opening brace.
StaticTakeToBrace(cs, j) ==
    IF j > Len(cs) \/ cs[j] = "{" THEN [oob |-> FALSE, n |-> 0]
    ELSE LET r == StaticTakeToBrace(cs, j + 1)
         IN  [oob |-> r.oob, n |-> r.n + 1]

RECURSIVE StaticTake(_, _)
\* How many characters the take_while of the static branch accepts from
\* position j on, and whether the lookahead chars[i + 1] was out of range.
StaticTake(cs, j) ==
    IF j > Len(cs) THEN [oob |-> FALSE, n |-> 0]
    ELSE IF cs[j] = "{" /\ j + 1 > Len(cs) THEN [oob |-> TRUE, n |-> 0]
    ELSE IF cs[j] = "{" /\ cs[j + 1] = "{" THEN [oob |-> FALSE, n |-> 0]
    ELSE LET r == StaticTake(cs, j + 1)
         IN  [oob |-> r.oob, n |-> r.n + 1]

\* One iteration of the tokenizer loop on the non-empty remainder cs: the
\* branch taken, the token, the advance, and the fatal failure if any.
Tokenize(cs) ==
    IF Len(cs) < 2
    THEN [fault |-> "slice", token |-> NoToken, skip |-> 0]
    ELSE IF cs[1] = "{" /\ cs[2] = "{"
    THEN LET str == SubSeq(cs, 3, 2 + DynamicTake(cs, 3))
             len == StrLen(str)
             skp == len + SKIP_BRACKETS
         IN  [fault |-> IF skp = 0 THEN "assert"
                        ELSE IF skp > Len(cs) THEN "drain" ELSE "none",
              token |-> Dynamic(str), skip |-> skp]
    ELSE LET r == StaticTake(cs, 1)
             str == SubSeq(cs, 1, r.n)
             len == StrLen(str)
         IN  IF r.oob
             THEN [fault |-> "index", token |-> NoToken, skip |-> 0]
             ELSE [fault |-> IF len = 0 THEN "assert"
                             ELSE IF len > Len(cs) THEN "drain" ELSE "none",
                   token |-> Static(str), skip |-> len]

\* Vec::drain(..n) on a vector that is long enough
Drain(cs, n) == SubSeq(cs, n + 1, Len(cs))

RECURSIVE Compile(_)
\* The whole tokenizer loop on cs: the segments, or the fatal failure.
Compile(cs) ==
    IF cs = <<>> THEN [fault |-> "none", segments |-> <<>>]
    ELSE LET r == Tokenize(cs)
         IN  IF r.fault # "none"
             THEN [fault |-> r.fault, segments |-> <<>>]
             ELSE LET rest == Compile(Drain(cs, r.skip))
                  IN  [fault |-> rest.fault,
                       segments |-> IF rest.fault = "none"
                                    THEN <<r.token>> \o rest.segments
                                    ELSE <<>>]

\* ------------------------------------------------------------- state ----
VARIABLES
    input,        \* the template passed to DynamicString::new
    pc,           \* position of DynamicString::new
    chars,        \* the characters not yet tokenized
    segments,     \* the segments pushed so far
    token,        \* the token of the last loop iteration
    skip,         \* the advance of the last loop iteration
    prev,         \* chars at the start of the last loop iteration
    fault,        \* the fatal failure that ended construction, or "none"
    next,         \* position of the segment loop in segments
    label_parts,  \* the shared buffer behind the mutex
    string,       \* the join taken by the initialize block
    chan,         \* strings sent on the channel and not yet received
    rx,           \* the receiver: "unattached", "attached" or "removed"
    spawned,      \* indices whose script task was spawned
    ended,        \* indices whose script stream has ended
    events,       \* every output event seen by a script callback, in order
    sunk,         \* every string the sink was called with, in order
    dropped,      \* the DynamicString returned by new has been dropped
    calling,      \* the strings whose sink call has not returned yet
    mutex,        \* the index of the callback holding the lock, or 0
    inside        \* the callbacks between their lock and their send

vars == <<input, pc, chars, segments, token, skip, prev, fault, next,
          label_parts, string, chan, rx, spawned, ended, events, sunk,
          dropped, calling, mutex, inside>>

fineVars == <<dropped, calling, mutex, inside>>

tokenizerVars == <<chars, segments, token, skip, prev>>

aggregatorVars == <<next, label_parts, string, chan, rx, spawned, ended,
                    events, sunk>>

InitOn(templates) ==
    /\ input \in templates
    /\ pc = "tokenize"
    /\ chars = input
    /\ segments = <<>>
    /\ token = NoToken
    /\ skip = 0
    /\ prev = <<>>
    /\ fault = "none"
    /\ next = 1
    /\ label_parts = <<>>
    /\ string = <<>>
    /\ chan = <<>>
    /\ rx = "unattached"
    /\ spawned = {}
    /\ ended = {}
    /\ events = <<>>
    /\ sunk = <<>>
    /\ dropped = FALSE
    /\ calling = <<>>
    /\ mutex = 0
    /\ inside = {}

Init == InitOn(Templates)

\* ----------------------------------------------------------- actions ----
\* one iteration of `while !chars.is_empty()`
TokenizeStep ==
    /\ pc = "tokenize"
    /\ chars # <<>>
    /\ LET r == Tokenize(chars)
       IN  /\ prev' = chars
           /\ token' = r.token
           /\ skip' = r.skip
           /\ fault' = r.fault
           /\ IF r.fault = "none"
              THEN /\ segments' = Append(segments, r.token)
                   /\ chars' = Drain(chars, r.skip)
                   /\ pc' = "tokenize"
              ELSE /\ pc' = "panic"
                   /\ UNCHANGED <<segments, chars>>
    /\ UNCHANGED fineVars
    /\ UNCHANGED <<input, aggregatorVars>>

\* the loop ends; the buffer and the channel are created
TokenizeExit ==
    /\ pc = "tokenize"
    /\ chars = <<>>
    /\ pc' = "segments"
    /\ next' = 1
    /\ label_parts' = <<>>
    /\ chan' = <<>>
    /\ rx' = "unattached"
    /\ UNCHANGED fineVars
    /\ UNCHANGED <<input, tokenizerVars, fault, string, spawned, ended,
                   events, sunk>>

\* one iteration of the segment loop: push the slot, spawn the script task
SegmentStep ==
    /\ pc = "segments"
    /\ next <= Len(segments)
    /\ LET segment == segments[next]
       IN  IF segment.kind = "Static"
           THEN /\ label_parts' = Append(label_parts, segment.text)
                /\ UNCHANGED spawned
           ELSE /\ label_parts' = Append(label_parts, <<>>)
                /\ spawned' = spawned \cup {next}
    /\ next' = next + 1
    /\ UNCHANGED fineVars
    /\ UNCHANGED <<input, pc, tokenizerVars, fault, string, chan, rx, ended,
                   events, sunk>>

\* initialize: the join is taken under the lock, which is then released
InitializeJoin ==
    /\ pc = "segments"
    /\ next > Len(segments)
    /\ string' = Join(label_parts)
    /\ pc' = "send"
    /\ UNCHANGED fineVars
    /\ UNCHANGED <<input, tokenizerVars, fault, next, label_parts, chan, rx,
                   spawned, ended, events, sunk>>

\* A send that drops a string equal to the one queued last.
SendCoalescing(ch, msg) ==
    IF rx = "removed" \/ (ch # <<>> /\ ch[Len(ch)] = msg) THEN ch
    ELSE Append(ch, msg)

\* The outcome of send!(tx, msg) for the channel: the message is queued
\* unless the receiver is gone.
Send(ch, msg) == IF rx = "removed" THEN ch ELSE Append(ch, msg)

\* initialize: the join is sent
InitializeSend ==
    /\ pc = "send"
    /\ chan' = Send(chan, string)
    /\ pc' = "attach"
    /\ UNCHANGED fineVars
    /\ UNCHANGED <<input, tokenizerVars, fault, next, label_parts, string,
                   rx, spawned, ended, events, sunk>>

\* rx.attach(None, f); Self
Attach ==
    /\ pc = "attach"
    /\ rx' = "attached"
    /\ pc' = "done"
    /\ UNCHANGED fineVars
    /\ UNCHANGED <<input, tokenizerVars, fault, next, label_parts, string,
                   chan, spawned, ended, events, sunk>>

\* A replace that writes the slot before the one of the script.
ReplaceOffByOne(parts, i, out) ==
    [parts EXCEPT ![IF i > 1 THEN i - 1 ELSE i] = out]

\* The buffer after the callback of the script at index i saw out.
Replace(parts, i, out) == [parts EXCEPT ![i] = out]

\* A callback that treats every stream kind as primary output.
ScriptOutputAnyStream(i, out) ==
    /\ i \in spawned \ ended
    /\ Len(events) < MaxEvents
    /\ events' = Append(events, [index |-> i, kind |-> out.kind,
                                 out |-> out.out])
    /\ label_parts' = [label_parts EXCEPT ![i] = out.out]
    /\ chan' = IF rx = "removed" THEN chan
               ELSE Append(chan, Join(label_parts'))
    /\ UNCHANGED fineVars
    /\ UNCHANGED <<input, pc, tokenizerVars, fault, next, string, rx,
                   spawned, ended, sunk>>

\* The callback of the script at index i runs on one output event: on
\* Stdout it locks the buffer, replaces its slot, joins and sends.
ScriptOutput(i, out) ==
    /\ i \in spawned \ ended
    /\ Len(events) < MaxEvents
    /\ events' = Append(events, [index |-> i, kind |-> out.kind,
                                 out |-> out.out])
    /\ IF out.kind = "Stdout"
       THEN /\ label_parts' = Replace(label_parts, i, out.out)
            /\ chan' = Send(chan, Join(label_parts'))
       ELSE UNCHANGED <<label_parts, chan>>
    /\ UNCHANGED fineVars
    /\ UNCHANGED <<input, pc, tokenizerVars, fault, next, string, rx,
                   spawned, ended, sunk>>

\* The stream of the script at index i ends or fails.
ScriptEnd(i) ==
    /\ i \in spawned \ ended
    /\ ended' = ended \cup {i}
    /\ UNCHANGED fineVars
    /\ UNCHANGED <<input, pc, tokenizerVars, fault, next, label_parts,
                   string, chan, rx, spawned, events, sunk>>

\* A dispatch that goes on calling the sink after Continue(false).
DeliverAfterStop(cont) ==
    /\ rx # "unattached"
    /\ chan # <<>>
    /\ sunk' = Append(sunk, Head(chan))
    /\ chan' = Tail(chan)
    /\ rx' = IF cont THEN rx ELSE "removed"
    /\ UNCHANGED fineVars
    /\ UNCHANGED <<input, pc, tokenizerVars, fault, next, label_parts,
                   string, spawned, ended, events>>

\* The main context hands the oldest queued string to the sink f, which
\* answers Continue(cont); on Continue(false) the source is removed.
Deliver(cont) ==
    /\ rx = "attached"
    /\ chan # <<>>
    /\ sunk' = Append(sunk, Head(chan))
    /\ IF cont
       THEN /\ chan' = Tail(chan)
            /\ UNCHANGED rx
       ELSE /\ chan' = <<>>
            /\ rx' = "removed"
    /\ UNCHANGED fineVars
    /\ UNCHANGED <<input, pc, tokenizerVars, fault, next, label_parts,
                   string, spawned, ended, events>>

\* some spawned script hands an output event to its callback
ScriptRun ==
    \E i \in 1..Len(segments), out \in OutputStreams : ScriptOutput(i, out)

\* some spawned script's stream ends
ScriptStop == \E i \in 1..Len(segments) : ScriptEnd(i)

\* the main context dispatches the receiver's source
Dispatch == \E cont \in BOOLEAN : Deliver(cont)

\* A drop that removes the source and abandons the script tasks.
DropCancelling ==
    /\ pc = "done"
    /\ ~dropped
    /\ dropped' = TRUE
    /\ rx' = "removed"
    /\ chan' = <<>>
    /\ ended' = spawned
    /\ UNCHANGED <<input, pc, tokenizerVars, fault, next, label_parts,
                   string, spawned, events, sunk, calling, mutex, inside>>

\* The returned DynamicString goes out of scope.  It is a unit struct: it
\* owns neither the tasks nor the source, and dropping it runs no code.
Drop ==
    /\ pc = "done"
    /\ ~dropped
    /\ dropped' = TRUE
    /\ UNCHANGED <<input, pc, tokenizerVars, fault, aggregatorVars, calling,
                   mutex, inside>>

\* ------------------------------------- callbacks and sink calls in steps ----
Idle(i) == \A c \in inside : c.index # i

\* A lock that is taken although another callback holds it.
CallbackLockUnguarded(i, out) ==
    /\ i \in spawned \ ended
    /\ Idle(i)
    /\ out.kind = "Stdout"
    /\ Len(events) < MaxFineEvents
    /\ mutex' = i
    /\ events' = Append(events, [index |-> i, kind |-> out.kind,
                                 out |-> out.out])
    /\ inside' = inside \cup {[index |-> i, step |-> "locked",
                               out |-> out.out, parts |-> <<>>,
                               string |-> <<>>]}
    /\ UNCHANGED <<input, pc, tokenizerVars, fault, next, label_parts,
                   string, chan, rx, spawned, ended, sunk, dropped, calling>>

\* The callback of the script at index i receives primary output and takes
\* the lock of the buffer.
CallbackLock(i, out) ==
    /\ i \in spawned \ ended
    /\ Idle(i)
    /\ out.kind = "Stdout"
    /\ Len(events) < MaxFineEvents
    /\ mutex = 0
    /\ mutex' = i
    /\ events' = Append(events, [index |-> i, kind |-> out.kind,
                                 out |-> out.out])
    /\ inside' = inside \cup {[index |-> i, step |-> "locked",
                               out |-> out.out, parts |-> <<>>,
                               string |-> <<>>]}
    /\ UNCHANGED <<input, pc, tokenizerVars, fault, next, label_parts,
                   string, chan, rx, spawned, ended, sunk, dropped, calling>>

\* std::mem::replace(&mut label_parts[i], out)
CallbackReplace(c) ==
    /\ c \in inside
    /\ c.step = "locked"
    /\ label_parts' = Replace(label_parts, c.index, c.out)
    /\ inside' = (inside \ {c})
                    \cup {[c EXCEPT !.step = "replaced",
                                    !.parts = label_parts']}
    /\ UNCHANGED <<input, pc, tokenizerVars, fault, next, string, chan, rx,
                   spawned, ended, events, sunk, dropped, calling, mutex>>

\* let string = label_parts.join("")
CallbackJoin(c) ==
    /\ c \in inside
    /\ c.step = "replaced"
    /\ inside' = (inside \ {c})
                    \cup {[c EXCEPT !.step = "joined",
                                    !.string = Join(label_parts)]}
    /\ UNCHANGED <<input, pc, tokenizerVars, fault, next, label_parts,
                   string, chan, rx, spawned, ended, events, sunk, dropped,
                   calling, mutex>>

\* send!(tx, string); the guard is dropped at the end of the block
CallbackSend(c) ==
    /\ c \in inside
    /\ c.step = "joined"
    /\ chan' = Send(chan, c.string)
    /\ inside' = inside \ {c}
    /\ mutex' = IF mutex = c.index THEN 0 ELSE mutex
    /\ UNCHANGED <<input, pc, tokenizerVars, fault, next, label_parts,
                   string, rx, spawned, ended, events, sunk, dropped,
                   calling>>

\* the callback receives an event of another stream kind
CallbackIgnore(i, out) ==
    /\ Idle(i)
    /\ out.kind # "Stdout"
    /\ Len(events) < MaxFineEvents
    /\ ScriptOutput(i, out)

\* A dispatch that calls the sink while an earlier call has not returned.
SinkCallReentrant ==
    /\ rx = "attached"
    /\ chan # <<>>
    /\ calling' = Append(calling, Head(chan))
    /\ sunk' = Append(sunk, Head(chan))
    /\ chan' = Tail(chan)
    /\ UNCHANGED <<input, pc, tokenizerVars, fault, next, label_parts,
                   string, rx, spawned, ended, events, dropped, mutex,
                   inside>>

\* The source of the receiver is dispatched on the thread of the main
\* context: it calls f with the oldest queued string.
SinkCall ==
    /\ rx = "attached"
    /\ chan # <<>>
    /\ calling = <<>>
    /\ calling' = Append(calling, Head(chan))
    /\ sunk' = Append(sunk, Head(chan))
    /\ chan' = Tail(chan)
    /\ UNCHANGED <<input, pc, tokenizerVars, fault, next, label_parts,
                   string, rx, spawned, ended, events, dropped, mutex,
                   inside>>

\* f returns Continue(cont); on Continue(false) the source is removed
SinkReturn(cont) ==
    /\ calling # <<>>
    /\ calling' = Tail(calling)
    /\ IF cont
       THEN UNCHANGED <<chan, rx>>
       ELSE /\ chan' = <<>>
            /\ rx' = "removed"
    /\ UNCHANGED <<input, pc, tokenizerVars, fault, next, label_parts,
                   string, spawned, ended, events, sunk, dropped, mutex,
                   inside>>

\* lock!(label_parts).push(..) waits for the lock
LockedSegmentStep == mutex = 0 /\ SegmentStep

\* lock!(label_parts).join("") waits for the lock
LockedInitializeJoin == mutex = 0 /\ InitializeJoin

CallbackStart ==
    \E i \in 1..Len(segments), out \in OutputStreams : CallbackLock(i, out)

CallbackWrite == \E c \in inside : CallbackReplace(c)

CallbackCompose == \E c \in inside : CallbackJoin(c)

CallbackPublish == \E c \in inside : CallbackSend(c)

CallbackSkip ==
    \E i \in 1..Len(segments), out \in OutputStreams : CallbackIgnore(i, out)

\* the stream of a script ends between two callbacks
CallbackStop == \E i \in 1..Len(segments) : Idle(i) /\ ScriptEnd(i)

SinkReturns == \E cont \in BOOLEAN : SinkReturn(cont)

Next ==
    \/ TokenizeStep
    \/ TokenizeExit
    \/ SegmentStep
    \/ InitializeJoin
    \/ InitializeSend
    \/ Attach
    \/ ScriptRun
    \/ ScriptStop
    \/ Dispatch

Spec == Init /\ [][Next]_vars

\* construction, then the drop of the returned value
NextDrop == (Next /\ Len(events') <= MaxFineEvents) \/ Drop

SpecDrop == Init /\ [][NextDrop]_vars

\* callbacks and sink calls taken step by step
NextFine ==
    \/ TokenizeStep
    \/ TokenizeExit
    \/ LockedSegmentStep
    \/ LockedInitializeJoin
    \/ InitializeSend
    \/ Attach
    \/ CallbackStart
    \/ CallbackWrite
    \/ CallbackCompose
    \/ CallbackPublish
    \/ CallbackSkip
    \/ CallbackStop
    \/ SinkCall
    \/ SinkReturns

SpecFine == Init /\ [][NextFine]_vars

\* the tokenizer alone, on longer templates
InitCompile == InitOn(CompileTemplates)

NextCompile == TokenizeStep \/ TokenizeExit

SpecCompile == InitCompile /\ [][NextCompile]_vars

TypeOK ==
    /\ pc \in {"tokenize", "panic", "segments", "send", "attach", "done"}
    /\ rx \in {"unattached", "attached", "removed"}
    /\ Len(label_parts) = next - 1
    /\ spawned \subseteq 1..Len(label_parts)
    /\ ended \subseteq spawned
    /\ Len(events) <= MaxEvents

\* ------------------------------------------- vocabulary of the claims ----
Compiled == pc \in {"segments", "send", "attach", "done"}

\* construction has returned, every sent string was received, and the sink
\* has always answered Continue(true)
Quiescent == pc = "done" /\ chan = <<>> /\ rx = "attached"

\* the primary-output events, in the order the callbacks saw them
StdoutEvents == SelectSeq(events, LAMBDA e : e.kind = "Stdout")

RECURSIVE LastOut(_, _, _)
\* the value of the last of the first n events of evs for index i
LastOut(evs, n, i) ==
    IF n = 0 THEN <<>>
    ELSE IF evs[n].index = i THEN evs[n].out
    ELSE LastOut(evs, n - 1, i)

\* one value per segment of the whole template: the static texts and, per
\* dynamic segment, the last value written by the first n primary outputs
SlotsAfter(n) ==
    [i \in 1..Len(segments) |->
        IF segments[i].kind = "Static" THEN segments[i].text
        ELSE LastOut(StdoutEvents, n, i)]

DynamicIndices == {i \in 1..Len(segments) : segments[i].kind = "Dynamic"}

\* one value per segment, with f giving the values of the dynamic segments
SlotsWith(f) ==
    [i \in 1..Len(segments) |->
        IF segments[i].kind = "Static" THEN segments[i].text ELSE f[i]]

\* cs has the pair c, c at position p
PairAt(cs, p, c) == p >= 1 /\ p + 1 <= Len(cs) /\ cs[p] = c /\ cs[p + 1] = c

HasOpen(cs) == \E p \in 1..Len(cs) : PairAt(cs, p, "{")

\* the positions, after the opening pair, of a closing pair
ClosePositions(cs) == {p \in 3..Len(cs) : PairAt(cs, p, "}")}

FirstClose(cs) == CHOOSE p \in ClosePositions(cs) :
                     \A q \in ClosePositions(cs) : p <= q

\* the template with every two-byte character replaced by a one-byte one
Narrow(cs) == [p \in 1..Len(cs) |-> IF cs[p] = "E" THEN "a" ELSE cs[p]]

NarrowSegments(segs) ==
    [i \in 1..Len(segs) |->
        [kind |-> segs[i].kind, text |-> Narrow(segs[i].text)]]

\* the initial snapshot, then the join right after each primary output
ExpectedPublishes ==
    [n \in 1..(Len(StdoutEvents) + 1) |-> Join(SlotsAfter(n - 1))]

Stdout(i, out) == [index |-> i, kind |-> "Stdout", out |-> out]

\* the initial string has been sent
InitialSent == IF pc \in {"attach", "done"} THEN 1 ELSE 0

\* ------------------------------------------------------------ claims ----
\* C1: the first string the sink receives is the join of the static texts
\* with the empty string at every dynamic position.
C1_InitialSnapshotFirst ==
    sunk # <<>> => sunk[1] = Join(SlotsAfter(0))

\* C2: once construction has returned and the channel is drained, the last
\* string the sink received is the join of the static texts and the last
\* value written to each dynamic slot.
C2_FinalStringIsLastWritten ==
    Quiescent => sunk[Len(sunk)] = Join(SlotsAfter(Len(StdoutEvents)))

\* C3: every string the sink receives is the concatenation, in template
\* order, of one value per segment of the whole template, with every static
\* text at its position.
C3_EveryPublishIsWholeSnapshot ==
    \A n \in 1..Len(sunk) :
        \E f \in [DynamicIndices -> Values \cup {<<>>}] :
            sunk[n] = Join(SlotsWith(f))

\* C4: a template without an opening pair compiles without failure, to the
\* single static segment equal to the input when it is not empty, and the
\* sink receives the input verbatim, exactly once.
C4_StaticTemplateVerbatimOnce ==
    ~HasOpen(input) =>
        /\ pc # "panic"
        /\ (Compiled /\ input # <<>>) => segments = <<Static(input)>>
        /\ Len(sunk) <= 1
        /\ sunk # <<>> => sunk[1] = input
        /\ Quiescent => sunk = <<input>>

\* C5: an opening pair with no closing pair before the end of the input
\* raises no failure and yields a dynamic segment whose expression is every
\* remaining character after the opening pair.
C5_UnterminatedConsumesToEnd ==
    (token.kind = "Dynamic" /\ ClosePositions(prev) = {}) =>
        /\ fault = "none"
        /\ token.text = SubSeq(prev, 3, Len(prev))

\* C6: the expression of a dynamic segment is the characters between the
\* opening pair and the first closing pair, and the cursor moves just past
\* that closing pair, so that no character is dropped.
C6_ExpressionEndsAtClosingPair ==
    (token.kind = "Dynamic" /\ ClosePositions(prev) # {}) =>
        /\ token.text = SubSeq(prev, 3, FirstClose(prev) - 1)
        /\ fault = "none" => chars = Drain(prev, FirstClose(prev) + 1)

\* C8: compilation is total: no template makes construction fail.
C8_CompilationTotal == pc # "panic"

\* C7: the cursor advances by the number of characters of the token (plus
\* 4 for a dynamic token), so a template with two-byte characters compiles
\* exactly as the template with one-byte characters in their place.
C7_AdvanceCountsCharacters ==
    /\ token.kind # "None" =>
          skip = Len(token.text)
                   + (IF token.kind = "Dynamic" THEN SKIP_BRACKETS ELSE 0)
    /\ Compile(Narrow(input)).fault = "none" => pc # "panic"
    /\ Compiled =>
          /\ Compile(Narrow(input)).fault = "none"
          /\ NarrowSegments(segments) = Compile(Narrow(input)).segments

\* C9: the sink receives the initial snapshot and then, for each primary
\* output in emission order, the join right after its write; for the
\* template {{x}}-{{y}} with x emitting 1, y emitting 2 and x emitting 3
\* that is -, 1-, 1-2, 3-2.
C9_PublishSequence ==
    /\ Len(sunk) <= Len(ExpectedPublishes)
    /\ \A n \in 1..Len(sunk) : sunk[n] = ExpectedPublishes[n]
    /\ Quiescent => sunk = ExpectedPublishes
    /\ (/\ Quiescent
        /\ input = TemplateXY
        /\ StdoutEvents = <<Stdout(1, <<"1">>), Stdout(3, <<"2">>),
                            Stdout(1, <<"3">>)>>)
          => sunk = << <<"-">>, <<"1", "-">>, <<"1", "-", "2">>,
                       <<"3", "-", "2">> >>

\* C10: every primary output causes exactly one publish, also when it
\* repeats the value its slot already holds: while the sink answers
\* Continue(true), the strings received and queued number the primary
\* outputs plus the initial string, so that once the channel is drained the
\* sink was called 1 + (number of primary outputs) times.
C10_OnePublishPerEvent ==
    /\ (Compiled /\ rx # "removed") =>
          Len(sunk) + Len(chan) = InitialSent + Len(StdoutEvents)
    /\ Quiescent => Len(sunk) = 1 + Len(StdoutEvents)

\* C10 happens: a script repeated its last value and the sink received the
\* unchanged string once more.
C10_Witness ==
    /\ Quiescent
    /\ Len(StdoutEvents) >= 2
    /\ LET n == Len(StdoutEvents)
       IN  /\ StdoutEvents[n] = StdoutEvents[n - 1]
           /\ Len(sunk) = n + 1
           /\ sunk[n + 1] = sunk[n]

\* the event the last step handed to a callback is of the given kind
Received(kind) ==
    /\ Len(events') = Len(events) + 1
    /\ events'[Len(events')].kind = kind

\* C11: an output event that is not primary output leaves every slot of
\* the buffer unchanged and sends nothing to the sink.
C11_OtherStreamsIgnored ==
    [][Received("Stderr") =>
          /\ label_parts' = label_parts
          /\ chan' = chan
          /\ sunk' = sunk]_vars

\* C11 happens: the last event was diagnostic output whose text differs
\* from the slot of its script.
C11_Witness ==
    /\ events # <<>>
    /\ LET e == events[Len(events)]
       IN  /\ e.kind = "Stderr"
           /\ label_parts[e.index] # e.out
           /\ Len(sunk) + Len(chan) = InitialSent + Len(StdoutEvents)

\* the value the script at index i wrote last, empty if it never wrote
LastWritten(i) == LastOut(StdoutEvents, Len(StdoutEvents), i)

\* the string s has the value v at the position of the dynamic segment i
Carries(s, i, v) ==
    \E f \in [DynamicIndices -> Values \cup {<<>>}] :
        f[i] = v /\ s = Join(SlotsWith(f))

\* C12: after the stream of one script has ended, its slot keeps the last
\* value it wrote, every string published later carries that value at its
\* position, and every other script still updates its slot and publishes.
C12_EndedScriptKeepsItsValue ==
    [][/\ \A i \in ended : label_parts'[i] = label_parts[i]
       /\ Len(chan') = Len(chan) + 1 =>
             \A i \in ended :
                 Carries(chan'[Len(chan')], i, LastWritten(i))
       /\ (ended # {} /\ Received("Stdout")) =>
             LET e == events'[Len(events')]
             IN  /\ label_parts'[e.index] = e.out
                 /\ rx # "removed" =>
                       chan' = Append(chan, Join(label_parts'))]_vars

\* C14: once the sink has answered Continue(false) it is never called
\* again, whatever the scripts emit; after Continue(true) the strings still
\* queued stay queued for delivery.
C14_NoDeliveryAfterStop ==
    [][/\ rx = "removed" => (sunk' = sunk /\ rx' = "removed")
       /\ (sunk' # sunk /\ rx' = "attached") =>
             (chan' = Tail(chan) /\ sunk' = Append(sunk, Head(chan)))]_vars

\* C14 happens: the sink has stopped and scripts emitted primary output
\* that it never received.
C14_Witness ==
    /\ rx = "removed"
    /\ pc = "done"
    /\ Len(StdoutEvents) >= 2
    /\ Len(sunk) = 1
    /\ Join(label_parts) # sunk[1]

\* C17: every string is queued while it still is the join of the buffer,
\* so the strings reach the sink in the order their joins were taken and a
\* later string never shows an older buffer than an earlier one.
C17_PublishOrderIsJoinOrder ==
    [][Len(chan') = Len(chan) + 1 =>
          chan'[Len(chan')] = Join(label_parts')]_vars

\* C20: a primary output of the script at index i changes slot i only,
\* every static slot holds its literal text from its push on, and once the
\* segment loop has finished the buffer has one slot per segment.
C20_OnlyOwnSlotChanges ==
    [][/\ Received("Stdout") =>
             LET e == events'[Len(events')]
             IN  /\ Len(label_parts') = Len(label_parts)
                 /\ label_parts'[e.index] = e.out
                 /\ \A j \in 1..Len(label_parts) :
                       j # e.index => label_parts'[j] = label_parts[j]
       /\ \A j \in 1..Len(label_parts') :
             segments'[j].kind = "Static" =>
                 label_parts'[j] = segments'[j].text
       /\ pc' \in {"send", "attach", "done"} =>
             Len(label_parts') = Len(segments')]_vars

\* C20 happens: both scripts of {{x}}-{{y}} have written different values
\* and the static slot between them still holds its text.
C20_Witness ==
    /\ input = TemplateXY
    /\ pc = "done"
    /\ Len(label_parts) = 3
    /\ label_parts[1] # <<>>
    /\ label_parts[3] # <<>>
    /\ label_parts[1] # label_parts[3]
    /\ label_parts[2] = <<"-">>

RECURSIVE PlainRun(_, _)
\* the number of characters from position j on that are not braces
PlainRun(cs, j) ==
    IF j > Len(cs) \/ cs[j] \in {"{", "}"} THEN 0
    ELSE 1 + PlainRun(cs, j + 1)

RECURSIVE SpanExprs(_)
\* cs read as back-to-back spans with brace-free expressions: whether it
\* is of that shape, and the expressions in order
SpanExprs(cs) ==
    IF cs = <<>> THEN [ok |-> TRUE, exprs |-> <<>>]
    ELSE IF ~PairAt(cs, 1, "{") THEN [ok |-> FALSE, exprs |-> <<>>]
    ELSE LET n == PlainRun(cs, 3)
         IN  IF ~PairAt(cs, n + 3, "}") THEN [ok |-> FALSE, exprs |-> <<>>]
             ELSE LET rest == SpanExprs(SubSeq(cs, n + 5, Len(cs)))
                  IN  [ok |-> rest.ok,
                       exprs |-> <<SubSeq(cs, 3, n + 2)>> \o rest.exprs]

AdjacentSpans(cs) == cs # <<>> /\ SpanExprs(cs).ok

\* C16: a template of k >= 1 back-to-back spans with brace-free expressions
\* compiles to exactly k dynamic segments with those expressions, in order,
\* and no static segment.
C16_AdjacentSpansOnlyDynamic ==
    AdjacentSpans(input) =>
        /\ pc # "panic"
        /\ Compiled =>
              segments = [i \in 1..Len(SpanExprs(input).exprs) |->
                             Dynamic(SpanExprs(input).exprs[i])]

\* C19: every iteration that computes an advance computes at least 1 (a
\* static token is not empty, a dynamic token advances by at least 4), the
\* assertion never fails, and the remaining input of a finished iteration
\* is strictly shorter than before it.
C19_AdvanceAtLeastOne ==
    /\ fault # "assert"
    /\ token.kind = "Static" => (token.text # <<>> /\ skip >= 1)
    /\ token.kind = "Dynamic" => skip >= SKIP_BRACKETS
    /\ (token.kind # "None" /\ fault = "none") =>
          (Len(chars) < Len(prev) /\ chars = Drain(prev, skip))

\* C19 happens: a static token of one character was consumed in front of
\* a span and input remains.
C19_Witness ==
    /\ token.kind = "Static"
    /\ fault = "none"
    /\ skip = 1
    /\ PairAt(chars, 1, "{")
    /\ Len(chars) = Len(prev) - 1

C15_SinkCallsSerial == Len(calling) <= 1

\* C15 happens: a sink call is in progress while another string is queued
\* and the callback of a script is about to send one more.
C15_Witness ==
    /\ Len(calling) = 1
    /\ chan # <<>>
    /\ \E c \in inside : c.step = "joined"

\* C18: at most one callback is between its lock and its send, it is the
\* holder of the lock, and from its write to its send the buffer stays as
\* its write left it: the string it joins and sends is the join of that
\* buffer.
C18_WriteThenJoinAtomic ==
    /\ Cardinality(inside) <= 1
    /\ \A c \in inside :
          /\ mutex = c.index
          /\ c.step \in {"replaced", "joined"} =>
                (label_parts = c.parts /\ label_parts[c.index] = c.out)
          /\ c.step = "joined" => c.string = Join(c.parts)

\* C18 happens: a callback has written its slot and not yet joined while
\* the segment loop still has a slot to push.
C18_Witness ==
    \E c \in inside :
        /\ c.step = "replaced"
        /\ pc = "segments"
        /\ next <= Len(segments)
====
